---- MODULE Spec2Model ----
(***************************************************************************)
(* Model of the callback-based Orchestrator (chat(message, options)), its  *)
(* ChatManager session store, the permission protocol and the ToolExecutor *)
(* dispatch.  JavaScript runs every piece of code between two awaits to    *)
(* completion, so each action below is one such piece: it starts when an   *)
(* awaited collaborator (LLM transport, stream iterator, permission asker, *)
(* tool) settles and runs up to the next await.                            *)
(*                                                                         *)
(* Transport contract assumed of the LLM client: a batch reply carries a   *)
(* message; a stream ends with its done chunk, which is delivered only     *)
(* once a message-bearing chunk has been delivered; client.abort() may     *)
(* make any call in flight on the shared client fail with an AbortError.   *)
(***************************************************************************)
EXTENDS Integers, Sequences, FiniteSets, TLC

\* ---- bounds of the model ----
MaxRounds == 2      \* the LLM asks for tools only in requests before this one
MaxCalls == 2       \* longest tool-call list of one assistant message
MaxChunks == 2      \* chunks of one streamed turn, the done chunk included
MaxLateChunks == 1  \* chunks an iterator yields after its done chunk
MaxStreamLen == 3   \* chunks of a stream handed to the aggregation on its own
MaxMessages == 2    \* messages of a history of the ChatManager used on its own
MaxPathLen == 5     \* characters of a path handed to getSafePath

Sessions == {"s1", "s2"}

\* ---- optional values: undefined / null is None, a present value x is Some(x) ----
None == <<>>
Some(x) == <<x>>
IsSome(o) == o # None
Get(o) == o[1]

\* ---- tool calls, messages, transport payloads ----
ToolCallSet == {[name |-> Some("FileRead")], [name |-> None]}
CallLists == UNION {[1..n -> ToolCallSet] : n \in 0..MaxCalls}
AskerAnswers == {"approve", "allow_all", "deny", "other", "throw"}

Message(role, content, calls, tool) ==
  [role |-> role, content |-> content, tool_calls |-> calls, tool_name |-> tool]

\* message.tool_calls !== undefined && message.tool_calls.length > 0
HasToolCalls(m) == IsSome(m.tool_calls) /\ Len(Get(m.tool_calls)) > 0

\* The first session is a full conversation; the second one is a plain chat (batch,
\* no asker, a reply without tool calls) that runs beside it on the same client.
\* Over one conversation the LLM asks for at most MaxCalls tool calls, and for none
\* from request number MaxRounds on.
CallBudget(s) == IF s = "s1" THEN MaxCalls ELSE 0
ChatOptions(s) ==
  IF s = "s1" THEN [stream : BOOLEAN, hasAsker : BOOLEAN]
              ELSE {[stream |-> FALSE, hasAsker |-> FALSE]}
Thinkings(s) == IF s = "s1" THEN {None, Some("t")} ELSE {None}

\* replies the transport may give to request number round, callsLeft calls remaining
ToolCallPayloads(round, callsLeft) ==
  {None} \cup {Some(c) : c \in {l \in CallLists :
                 Len(l) <= callsLeft /\ (Len(l) > 0 => round < MaxRounds)}}
PayloadSize(tc) == IF IsSome(tc) THEN Len(Get(tc)) ELSE 0
BatchReplies(s, round, callsLeft) ==
  {[message |-> Message("assistant", Some(<<"r">>), tc, None), thinking |-> th] :
     tc \in ToolCallPayloads(round, callsLeft), th \in Thinkings(s)}
StreamChunks(round, callsLeft) ==
  {[message |-> m, thinking |-> None, done |-> d] :
     m \in {None} \cup {Some(Message("assistant", Some(<<"a">>), None, None))}
           \cup {Some(Message("assistant", None, tc, None)) :
                   tc \in ToolCallPayloads(round, callsLeft) \ {None}},
     d \in BOOLEAN}
  \cup {[message |-> None, thinking |-> Some("t"), done |-> FALSE]}
ChunkPayload(chunk) ==
  IF IsSome(chunk.message) THEN Get(chunk.message).tool_calls ELSE None
ChunkCalls(chunk) == PayloadSize(ChunkPayload(chunk))
\* what a complete reply is observed to be: with or without tool calls
ReplyKind(hasCalls) == IF hasCalls THEN "tool_calls" ELSE "no_tool_calls"

VARIABLES
  activeSessions,      \* Orchestrator.activeSessions : Map<string, boolean>
  sessionPermissions,  \* Orchestrator.sessionPermissions : Map<string, {allowAll}>
  sessions,            \* ChatManager.sessions : Map<string, ChatSession>
  frame,               \* the locals of each chat() invocation and where it is suspended
  transport,           \* the LLM client's call in flight for each session
  trace,               \* what the collaborators observed, per session, in order
  call                 \* a library function called on its own: arguments and result

vars == <<activeSessions, sessionPermissions, sessions, frame, transport, trace, call>>

\* the whole state as one value, so that code run to completion composes
State ==
  [activeSessions |-> activeSessions, sessionPermissions |-> sessionPermissions,
   sessions |-> sessions, frame |-> frame, transport |-> transport, trace |-> trace]

Install(g) ==
  /\ activeSessions' = g.activeSessions
  /\ sessionPermissions' = g.sessionPermissions
  /\ sessions' = g.sessions
  /\ frame' = g.frame
  /\ transport' = g.transport
  /\ trace' = g.trace
  /\ call' = call

EmptyMap == [k \in {} |-> TRUE]
MapSet(f, k, v) == [x \in (DOMAIN f) \cup {k} |-> IF x = k THEN v ELSE f[x]]

NewFrame ==
  [pc |-> "new", stream |-> FALSE, hasAsker |-> FALSE, hasToolCalls |-> FALSE,
   iterationCount |-> 0, toolCalls |-> <<>>, idx |-> 0, currentMessage |-> None,
   aliases |-> {}, response |-> None]
IdleTransport(callsLeft) ==
  [state |-> "idle", cancelled |-> FALSE, chunks |-> 0, late |-> 0, doneSent |-> FALSE,
   sentMessage |-> FALSE, sentCalls |-> 0, request |-> <<>>, callsLeft |-> callsLeft]

\* a new Orchestrator with its ChatManager, and no chat() called yet
Constructed ==
  /\ activeSessions = EmptyMap
  /\ sessionPermissions = EmptyMap
  /\ sessions = EmptyMap
  /\ frame = [s \in Sessions |-> NewFrame]
  /\ transport = [s \in Sessions |-> IdleTransport(CallBudget(s))]
  /\ trace = [s \in Sessions |-> <<>>]

Init == Constructed /\ call = None

\* ---- ChatManager ----
\* variant of addMessage: a session that is not there is created for the message
addMessageCreatesSession(g, id, m) ==
  IF id \in DOMAIN g.sessions
    THEN [g EXCEPT !.sessions[id].messages = Append(@, m)]
    ELSE [g EXCEPT !.sessions = MapSet(@, id, [messages |-> <<m>>])]

createSession(g, id) == [g EXCEPT !.sessions = MapSet(@, id, [messages |-> <<>>])]
addMessage(g, id, m) ==
  IF id \in DOMAIN g.sessions
    THEN [g EXCEPT !.sessions[id].messages = Append(@, m)]
    ELSE g
getMessages(g, id) == IF id \in DOMAIN g.sessions THEN g.sessions[id].messages ELSE <<>>
\* createSession(initialMessage): a non-empty initial message seeds the history
createSessionWith(g, id, initialMessage) ==
  [g EXCEPT !.sessions =
     MapSet(@, id,
            [messages |-> IF IsSome(initialMessage) /\ Len(Get(initialMessage)) > 0
                            THEN <<Message("user", initialMessage, None, None)>>
                            ELSE <<>>])]
\* what addMessage returns
addMessageReturns(g, id) == id \in DOMAIN g.sessions
\* what getMessages returns to a caller that tells absent from empty
getMessagesOrAbsent(g, id) ==
  IF id \in DOMAIN g.sessions THEN Some(g.sessions[id].messages) ELSE None
getSession(g, id) == IF id \in DOMAIN g.sessions THEN Some(g.sessions[id]) ELSE None
deleteSession(g, id) ==
  [g EXCEPT !.sessions = [x \in (DOMAIN @) \ {id} |-> @[x]]]
deleteSessionReturns(g, id) == id \in DOMAIN g.sessions

\* ---- observations ----
\* an observation carries the length of the session's history at that moment
Event(ev, g, s, info, ok) ==
  [ev |-> ev, round |-> g.frame[s].iterationCount, call |-> g.frame[s].idx,
   info |-> info, ok |-> ok, len |-> Len(getMessages(g, s))]
Emit(g, s, ev, info, ok) == [g EXCEPT !.trace[s] = Append(@, Event(ev, g, s, info, ok))]

\* ---- Orchestrator ----
\* (this.activeSessions.get(sessionId) ?? false) === true
IsActive(g, s) == s \in DOMAIN g.activeSessions /\ g.activeSessions[s]
AllowAll(g, s) == s \in DOMAIN g.sessionPermissions /\ g.sessionPermissions[s].allowAll

\* ---- ToolExecutor ----
RegisteredTools ==
  {"DirectoryList", "FileCreate", "FileDelete", "FileEdit", "FileRead", "FileRename",
   "FileSearch", "GlobSearch", "TerminalCmd"}
ToolOutputs == {"output"}
\* variant of execute: a call that names no tool falls into a tool's case
executeEmptyNameRuns(toolName, output) ==
  IF toolName \in RegisteredTools \cup {""}
    THEN <<output>> ELSE <<"Unknown tool: ", toolName>>

\* the result string: a registered tool's own output, else 'Unknown tool: <name>'
execute(toolName, output) ==
  IF toolName \in RegisteredTools THEN <<output>> ELSE <<"Unknown tool: ", toolName>>

\* toolCallObj.function?.name ?? ''
extractToolCallData(toolCall) ==
  [toolName |-> IF IsSome(toolCall.name) THEN Get(toolCall.name) ELSE ""]

\* client.abort(): every call in flight on the shared client is cancelled
clientAbort(g) ==
  [g EXCEPT !.transport =
     [x \in Sessions |-> IF @[x].state # "idle" THEN [@[x] EXCEPT !.cancelled = TRUE]
                                                 ELSE @[x]]]

\* variant of abort(): the abort also clears the recorded permissions
abortForgetsPermissions(g) ==
  clientAbort([g EXCEPT !.activeSessions = EmptyMap, !.sessionPermissions = EmptyMap])

\* Orchestrator.abort()
abort(g) == clientAbort([g EXCEPT !.activeSessions = EmptyMap])

\* variant of abortSession: the abort of a handle is announced by an abort event
abortSessionEmitsAbort(g, s) ==
  clientAbort([Emit(g, s, "onAbort", "Aborted by caller", TRUE)
                 EXCEPT !.activeSessions = MapSet(@, s, FALSE)])

\* Orchestrator.abortSession(sessionId)
abortSession(g, s) == clientAbort([g EXCEPT !.activeSessions = MapSet(@, s, FALSE)])

\* the locals of an iteration go out of scope; the transport call is over
ClearLocals(g, s) ==
  [g EXCEPT !.frame[s].toolCalls = <<>>, !.frame[s].idx = 0,
            !.frame[s].currentMessage = None, !.frame[s].aliases = {},
            !.frame[s].response = None,
            !.transport[s] = IdleTransport(@.callsLeft)]
EndFrame(g, s, pc) ==
  [ClearLocals(g, s) EXCEPT !.frame[s].pc = pc, !.frame[s].hasToolCalls = FALSE]

\* variant of the catch block: the error is rethrown without touching the flag
chatCatchKeepsActive(g, s) ==
  EndFrame(Emit(g, s, "chatRejected", "", TRUE), s, "rejected")

\* variant of the catch block: the failure is also reported by an abort event
chatCatchEmitsAbort(g, s) ==
  LET g1 == [Emit(g, s, "onAbort", "Chat failed", TRUE)
               EXCEPT !.activeSessions = MapSet(@, s, FALSE)]
  IN EndFrame(Emit(g1, s, "chatRejected", "", TRUE), s, "rejected")

\* the catch block of chat(): mark the session inactive and rethrow
chatCatch(g, s) ==
  LET g1 == [g EXCEPT !.activeSessions = MapSet(@, s, FALSE)]
  IN EndFrame(Emit(g1, s, "chatRejected", "", TRUE), s, "rejected")

\* processChatLoop returns and chat() returns the session handle
chatReturn(g, s) ==
  EndFrame(Emit(g, s, "chatResolved", "", TRUE), s, "resolved")

\* the while condition of processChatLoop and the loop body up to `await client.chat`
processChatLoopHead(g, s) ==
  IF g.frame[s].hasToolCalls /\ IsActive(g, s)
    THEN LET g1 == [ClearLocals(g, s) EXCEPT !.frame[s].iterationCount = @ + 1,
                                             !.frame[s].pc = "awaitChat"]
             g2 == [g1 EXCEPT !.transport[s].state = "pending",
                              !.transport[s].request = getMessages(g1, s)]
         IN Emit(g2, s, "request", "", TRUE)
    ELSE chatReturn(g, s)

\* variant of the hasToolCalls test: the length of tool_calls is not looked at
streamReturnAnyToolCalls(g, s) ==
  LET cur == g.frame[s].currentMessage
      g1 == [g EXCEPT !.frame[s].hasToolCalls = IsSome(cur) /\ IsSome(Get(cur).tool_calls),
                      !.transport[s].state = "idle"]
  IN processChatLoopHead(g1, s)

\* variant of processStreamingResponse: the message is appended on the way out
streamReturnAppendsPartial(g, s) ==
  LET cur == g.frame[s].currentMessage
      g1 == IF IsSome(cur) THEN addMessage(g, s, Get(cur)) ELSE g
      g2 == [g1 EXCEPT !.frame[s].hasToolCalls = IsSome(cur) /\ HasToolCalls(Get(cur)),
                       !.transport[s].state = "idle"]
  IN processChatLoopHead(g2, s)

\* processStreamingResponse returns currentMessage; the loop computes hasToolCalls
streamReturn(g, s) ==
  LET cur == g.frame[s].currentMessage
      g1 == [g EXCEPT !.frame[s].hasToolCalls = IsSome(cur) /\ HasToolCalls(Get(cur)),
                      !.transport[s].state = "idle"]
  IN processChatLoopHead(g1, s)

\* the code after handleToolCalls returns (or is skipped)
resumeAfterToolCalls(g, s) ==
  IF g.frame[s].stream
    THEN \* finalizeStreamingMessage returns; the for-await asks for the next chunk
         [g EXCEPT !.frame[s].pc = "awaitChunk"]
    ELSE \* processNonStreamingResponse: thinking event, then hasToolCalls
         LET response == Get(g.frame[s].response)
             g1 == IF IsSome(response.thinking)
                     THEN Emit(g, s, "onThinking", "", TRUE) ELSE g
             g2 == [g1 EXCEPT !.frame[s].hasToolCalls = HasToolCalls(response.message),
                              !.transport[s].state = "idle"]
         IN processChatLoopHead(g2, s)

\* variant of handlePermissionDenied: the event is emitted, the flag is left alone
handlePermissionDeniedKeepsActive(g, s) ==
  Emit(g, s, "onAbort", "Permission denied by user", TRUE)

\* handlePermissionDenied
handlePermissionDenied(g, s) ==
  [Emit(g, s, "onAbort", "Permission denied by user", TRUE)
     EXCEPT !.activeSessions = MapSet(@, s, FALSE)]

\* executeTool up to `await toolExecutor.execute`
executeToolCall(g, s, toolName) ==
  [Emit(g, s, "execute", toolName, TRUE) EXCEPT !.frame[s].pc = "awaitTool"]

\* variant of handleToolCalls: the verdict of the permission request is not tested
afterPermissionUngated(g, s, toolName, approved) == executeToolCall(g, s, toolName)

\* variant of handleToolCalls: after a denial the loop waits for a second answer
afterPermissionDeniedWaits(g, s, toolName, approved) ==
  IF ~approved
    THEN [handlePermissionDenied(g, s) EXCEPT !.frame[s].pc = "awaitSecondAnswer"]
    ELSE executeToolCall(g, s, toolName)

\* handleToolCalls after requestPermission has resolved
afterPermission(g, s, toolName, approved) ==
  IF ~approved
    THEN resumeAfterToolCalls(handlePermissionDenied(g, s), s)
    ELSE executeToolCall(g, s, toolName)

\* variant of processPermissionResponse: deny is treated like approve
processPermissionResponseDenyApproves(g, s, action) ==
  IF action \in {"approve", "deny"} THEN [g |-> g, approved |-> TRUE]
  ELSE IF action = "allow_all"
    THEN [g |-> [g EXCEPT !.sessionPermissions = MapSet(@, s, [allowAll |-> TRUE])],
          approved |-> TRUE]
  ELSE [g |-> g, approved |-> FALSE]

\* variant of processPermissionResponse: an unknown action falls through to true
processPermissionResponseDefaultTrue(g, s, action) ==
  IF action = "approve" THEN [g |-> g, approved |-> TRUE]
  ELSE IF action = "allow_all"
    THEN [g |-> [g EXCEPT !.sessionPermissions = MapSet(@, s, [allowAll |-> TRUE])],
          approved |-> TRUE]
  ELSE IF action = "deny" THEN [g |-> g, approved |-> FALSE]
  ELSE [g |-> g, approved |-> TRUE]

\* processPermissionResponse: the verdict and the recorded allow-all
processPermissionResponse(g, s, action) ==
  IF action = "approve" THEN [g |-> g, approved |-> TRUE]
  ELSE IF action = "allow_all"
    THEN [g |-> [g EXCEPT !.sessionPermissions = MapSet(@, s, [allowAll |-> TRUE])],
          approved |-> TRUE]
  ELSE [g |-> g, approved |-> FALSE]

\* requestPermission up to `await options.onAskPermission`
requestPermission(g, s, toolName) ==
  IF AllowAll(g, s)
    THEN afterPermission(Emit(g, s, "permission", "allow_all_recorded", TRUE),
                         s, toolName, TRUE)
  ELSE IF ~g.frame[s].hasAsker
    THEN afterPermission(Emit(g, s, "permission", "no_asker", TRUE), s, toolName, TRUE)
  ELSE [Emit(g, s, "ask", toolName, TRUE) EXCEPT !.frame[s].pc = "awaitPermission"]

\* the for loop of handleToolCalls, at the call number frame.idx
handleToolCalls(g, s) ==
  LET f == g.frame[s] IN
  IF f.idx > Len(f.toolCalls) \/ ~IsActive(g, s)
    THEN resumeAfterToolCalls(g, s)
    ELSE LET data == extractToolCallData(f.toolCalls[f.idx])
         IN requestPermission(Emit(g, s, "onToolCall", data.toolName, TRUE),
                              s, data.toolName)

\* variant of handleToolCalls: only the last call of the list is processed
startToolCallsLastOnly(g, s, message) ==
  IF HasToolCalls(message)
    THEN handleToolCalls([g EXCEPT !.frame[s].toolCalls = Get(message.tool_calls),
                                   !.frame[s].idx = Len(Get(message.tool_calls))], s)
    ELSE resumeAfterToolCalls(g, s)

\* a finished assistant message: append it, then handle its tool calls
startToolCalls(g, s, message) ==
  IF HasToolCalls(message)
    THEN handleToolCalls([g EXCEPT !.frame[s].toolCalls = Get(message.tool_calls),
                                   !.frame[s].idx = 1], s)
    ELSE resumeAfterToolCalls(g, s)

\* processNonStreamingResponse
processNonStreamingResponse(g, s, response) ==
  LET g1 == addMessage([g EXCEPT !.frame[s].response = Some(response)],
                       s, response.message)
  IN startToolCalls(Emit(g1, s, "onMessage", "", TRUE), s, response.message)

\* finalizeStreamingMessage: the history receives the currentMessage object itself
finalizeStreamingMessage(g, s, message) ==
  LET g1 == addMessage(g, s, message)
      g2 == IF s \in DOMAIN g.sessions
              THEN [g1 EXCEPT !.frame[s].aliases = @ \cup {Len(getMessages(g1, s))}]
              ELSE g1
  IN startToolCalls(g2, s, message)

\* processStreamingChunk: the thinking and content events of one chunk
processStreamingChunk(g, s, chunk) ==
  LET g1 == IF IsSome(chunk.thinking) THEN Emit(g, s, "onThinking", "", TRUE) ELSE g
  IN IF IsSome(chunk.message) /\ IsSome(Get(chunk.message).content)
        /\ Len(Get(Get(chunk.message).content)) > 0
       THEN Emit(g1, s, "onMessage", "", TRUE) ELSE g1

\* variant of updateCurrentMessage: a chunk's content takes the place of the content
updateCurrentMessageReplacesContent(chunk, currentMessage) ==
  IF chunk.message = None THEN currentMessage
  ELSE IF currentMessage = None THEN chunk.message
  ELSE LET cm == Get(currentMessage)
           m == Get(chunk.message)
           c1 == IF IsSome(m.content) THEN [cm EXCEPT !.content = m.content] ELSE cm
       IN Some(IF IsSome(m.tool_calls) THEN [c1 EXCEPT !.tool_calls = m.tool_calls]
                                       ELSE c1)

\* updateCurrentMessage
updateCurrentMessage(chunk, currentMessage) ==
  IF chunk.message = None THEN currentMessage
  ELSE IF currentMessage = None THEN chunk.message
  ELSE LET cm == Get(currentMessage)
           m == Get(chunk.message)
           c1 == IF IsSome(m.content)
                   THEN [cm EXCEPT !.content =
                           Some((IF IsSome(cm.content) THEN Get(cm.content) ELSE <<>>)
                                \o Get(m.content))]
                   ELSE cm
       IN Some(IF IsSome(m.tool_calls) THEN [c1 EXCEPT !.tool_calls = m.tool_calls]
                                       ELSE c1)

\* updateCurrentMessage assigns to the fields of the currentMessage object: every
\* place of the history that holds this object shows the new content
writeCurrentMessage(g, s, cur) ==
  LET g1 == [g EXCEPT !.frame[s].currentMessage = cur]
  IN IF s \in DOMAIN g.sessions /\ IsSome(cur)
       THEN [g1 EXCEPT !.sessions[s].messages =
               [i \in 1..Len(@) |-> IF i \in g.frame[s].aliases THEN Get(cur) ELSE @[i]]]
       ELSE g1

\* the body of the for-await of processStreamingResponse for one chunk
processStreamingResponseChunk(g, s, chunk) ==
  IF ~IsActive(g, s)
    THEN streamReturn(g, s)
    ELSE LET g1 == processStreamingChunk(g, s, chunk)
             cur == updateCurrentMessage(chunk, g1.frame[s].currentMessage)
             g2 == writeCurrentMessage(g1, s, cur)
         IN IF chunk.done /\ IsSome(cur)
              THEN finalizeStreamingMessage(g2, s, Get(cur))
              ELSE [g2 EXCEPT !.frame[s].pc = "awaitChunk"]

\* variant of chat(): the system prompt is not injected
chatStartNoSystemPrompt(g, s, stream, hasAsker) ==
  LET g1 == createSession(g, s)
      g2 == [g1 EXCEPT !.activeSessions = MapSet(@, s, TRUE),
                       !.frame[s].stream = stream,
                       !.frame[s].hasAsker = hasAsker]
      g3 == addMessage(g2, s, Message("user", Some(<<"u">>), None, None))
  IN processChatLoopHead([g3 EXCEPT !.frame[s].hasToolCalls = TRUE], s)

\* chat(message, options) up to the first await of the loop
chatStart(g, s, stream, hasAsker) ==
  LET g1 == createSession(g, s)
      g2 == [g1 EXCEPT !.activeSessions = MapSet(@, s, TRUE),
                       !.frame[s].stream = stream,
                       !.frame[s].hasAsker = hasAsker]
      g3 == addMessage(g2, s, Message("user", Some(<<"u">>), None, None))
      hasSystemMessage ==
        \E i \in 1..Len(getMessages(g3, s)) : getMessages(g3, s)[i].role = "system"
      g4 == IF ~hasSystemMessage
              THEN addMessage(g3, s, Message("system", Some(<<"p">>), None, None))
              ELSE g3
  IN processChatLoopHead([g4 EXCEPT !.frame[s].hasToolCalls = TRUE], s)

\* variant of executeTool: the tool message does not say which tool produced it
executeToolDoneUnnamed(g, s, output) ==
  LET f == g.frame[s]
      toolName == extractToolCallData(f.toolCalls[f.idx]).toolName
      result == execute(toolName, output)
      g1 == Emit(g, s, "onToolResult", toolName, TRUE)
      g2 == addMessage(g1, s, Message("tool", Some(result), None, None))
  IN handleToolCalls([g2 EXCEPT !.frame[s].idx = @ + 1], s)

\* executeTool after `await toolExecutor.execute`, then the next tool call
executeToolDone(g, s, output) ==
  LET f == g.frame[s]
      toolName == extractToolCallData(f.toolCalls[f.idx]).toolName
      result == execute(toolName, output)
      g1 == Emit(g, s, "onToolResult", toolName, TRUE)
      g2 == addMessage(g1, s, Message("tool", Some(result), None, Some(toolName)))
  IN handleToolCalls([g2 EXCEPT !.frame[s].idx = @ + 1], s)

\* ---- actions ----
\* the application calls chat(message, options)
Chat(s) ==
  /\ frame[s].pc = "new"
  /\ \E options \in ChatOptions(s) :
       Install(chatStart(State, s, options.stream, options.hasAsker))

\* client.chat resolves with a batch reply
BatchReply(s) ==
  /\ frame[s].pc = "awaitChat" /\ ~frame[s].stream
  /\ \E response \in BatchReplies(s, frame[s].iterationCount, transport[s].callsLeft) :
       LET g == Emit([State EXCEPT !.transport[s].callsLeft =
                                     @ - PayloadSize(response.message.tool_calls)],
                     s, "reply", ReplyKind(HasToolCalls(response.message)), TRUE)
       IN IF ~IsActive(g, s)
            THEN Install(chatReturn(g, s))
            ELSE Install(processNonStreamingResponse(g, s, response))

\* client.chat resolves with the chunk iterator
StreamOpen(s) ==
  /\ frame[s].pc = "awaitChat" /\ frame[s].stream
  /\ IF ~IsActive(State, s)
       THEN Install(chatReturn(State, s))
       ELSE Install([State EXCEPT !.frame[s].currentMessage = None,
                                  !.frame[s].pc = "awaitChunk",
                                  !.transport[s].state = "streaming"])

\* the iterator yields the next chunk
StreamChunk(s) ==
  /\ frame[s].pc = "awaitChunk"
  /\ transport[s].state = "streaming" /\ ~transport[s].doneSent
  /\ transport[s].chunks < MaxChunks
  /\ \E chunk \in StreamChunks(frame[s].iterationCount, transport[s].callsLeft) :
       /\ transport[s].chunks + 1 = MaxChunks => chunk.done
       /\ chunk.done => (IsSome(chunk.message) \/ transport[s].sentMessage)
       /\ LET sent == IF ChunkPayload(chunk) # None THEN ChunkCalls(chunk)
                                                      ELSE transport[s].sentCalls
              g == [State EXCEPT !.transport[s].chunks = @ + 1,
                                 !.transport[s].callsLeft = @ - ChunkCalls(chunk),
                                 !.transport[s].doneSent = chunk.done,
                                 !.transport[s].sentCalls = sent,
                                 !.transport[s].sentMessage = @ \/ IsSome(chunk.message)]
          IN Install(processStreamingResponseChunk(
               IF chunk.done THEN Emit(g, s, "reply", ReplyKind(sent > 0), TRUE) ELSE g,
               s, chunk))

\* the iterator is exhausted after its done chunk
StreamEnd(s) ==
  /\ frame[s].pc = "awaitChunk"
  /\ transport[s].state = "streaming" /\ transport[s].doneSent
  /\ Install(streamReturn(State, s))

\* the iterator throws an AbortError after client.abort()
StreamAbortError(s) ==
  /\ frame[s].pc = "awaitChunk"
  /\ transport[s].state = "streaming" /\ ~transport[s].doneSent
  /\ transport[s].cancelled
  /\ Install(streamReturn(State, s))

\* the transport fails: client.chat rejects, or the iterator throws another error
TransportFailure(s) ==
  /\ \/ frame[s].pc = "awaitChat"
     \/ frame[s].pc = "awaitChunk" /\ transport[s].state = "streaming"
                                   /\ ~transport[s].doneSent
  /\ Install(chatCatch(Emit(State, s, "transportFailure", "", TRUE), s))

\* the asker settles
AskerReply(s) ==
  /\ frame[s].pc = "awaitPermission"
  /\ \E answer \in AskerAnswers :
       LET f == frame[s]
           toolName == extractToolCallData(f.toolCalls[f.idx]).toolName
           r == IF answer = "throw" THEN [g |-> State, approved |-> FALSE]
                ELSE processPermissionResponse(State, s, answer)
       IN Install(afterPermission(Emit(r.g, s, "permission", answer, r.approved),
                                  s, toolName, r.approved))

\* the tool settles
ToolDone(s) ==
  /\ frame[s].pc = "awaitTool"
  /\ \E output \in ToolOutputs : Install(executeToolDone(State, s, output))

\* the application calls orchestrator.abort()
Abort ==
  /\ \E s \in Sessions : frame[s].pc # "new"
  /\ Install(abort(State))

\* the application calls abort() on the handle that chat() returned
AbortSession(s) ==
  /\ frame[s].pc = "resolved"
  /\ Install(abortSession(State, s))

Next ==
  \/ \E s \in Sessions : Chat(s)
  \/ \E s \in Sessions : BatchReply(s)
  \/ \E s \in Sessions : StreamOpen(s)
  \/ \E s \in Sessions : StreamChunk(s)
  \/ \E s \in Sessions : StreamEnd(s)
  \/ \E s \in Sessions : StreamAbortError(s)
  \/ \E s \in Sessions : TransportFailure(s)
  \/ \E s \in Sessions : AskerReply(s)
  \/ \E s \in Sessions : ToolDone(s)
  \/ \E s \in Sessions : AbortSession(s)
  \/ Abort

Spec == Init /\ [][Next]_vars

\* the iterator yields a chunk although it has already yielded its done chunk: the
\* for-await of processStreamingResponse runs its body for it like for any chunk
LateChunk(s) ==
  /\ frame[s].pc = "awaitChunk"
  /\ transport[s].state = "streaming" /\ transport[s].doneSent
  /\ transport[s].late < MaxLateChunks
  /\ \E chunk \in StreamChunks(frame[s].iterationCount, transport[s].callsLeft) :
       LET sent == IF ChunkPayload(chunk) # None THEN ChunkCalls(chunk)
                                                ELSE transport[s].sentCalls
           g == [State EXCEPT !.transport[s].late = @ + 1,
                              !.transport[s].callsLeft = @ - ChunkCalls(chunk),
                              !.transport[s].sentCalls = sent,
                              !.transport[s].sentMessage = @ \/ IsSome(chunk.message)]
       IN Install(processStreamingResponseChunk(g, s, chunk))

\* the conversation whose stream may go on; the plain chat beside it never streams
LateSessions == {"s1"}

NextLateChunks ==
  \/ \E s \in LateSessions : Chat(s)
  \/ \E s \in LateSessions : BatchReply(s)
  \/ \E s \in LateSessions : StreamOpen(s)
  \/ \E s \in LateSessions : StreamChunk(s)
  \/ \E s \in LateSessions : LateChunk(s)
  \/ \E s \in LateSessions : StreamEnd(s)
  \/ \E s \in LateSessions : StreamAbortError(s)
  \/ \E s \in LateSessions : TransportFailure(s)
  \/ \E s \in LateSessions : AskerReply(s)
  \/ \E s \in LateSessions : ToolDone(s)
  \/ \E s \in LateSessions : AbortSession(s)
  \/ Abort

\* one conversation over a transport whose stream may go on after its done chunk
SpecLateChunks == Init /\ [][NextLateChunks]_vars

\* ---- the aggregation of a stream, on its own ----
Deltas == {None, Some(<<"Hel">>), Some(<<"lo">>)}
AggregatorPayloads == {None, Some(<<>>), Some(<<[name |-> Some("FileRead")]>>)}
AggregatorChunks ==
  {[message |-> m, thinking |-> None, done |-> FALSE] :
     m \in {None} \cup {Some(Message("assistant", c, tc, None)) :
                          c \in Deltas, tc \in AggregatorPayloads}}
\* the streams of at most MaxStreamLen chunks: the last chunk is the done chunk
Streams ==
  UNION {{[i \in 1..n |-> [cs[i] EXCEPT !.done = (i = n)]] :
            cs \in [1..n -> AggregatorChunks]} : n \in 1..MaxStreamLen}

InitAggregate ==
  /\ Constructed
  /\ call \in {[op |-> "aggregate", chunks |-> cs, pos |-> 0, currentMessage |-> None] :
                 cs \in Streams}

\* the for-await of processStreamingResponse takes the next chunk of the stream
AggregateChunk ==
  /\ call.pos < Len(call.chunks)
  /\ call' = [call EXCEPT
                !.pos = @ + 1,
                !.currentMessage = updateCurrentMessage(call.chunks[call.pos + 1], @)]
  /\ UNCHANGED <<activeSessions, sessionPermissions, sessions, frame, transport, trace>>

NextAggregate == AggregateChunk

SpecAggregate == InitAggregate /\ [][NextAggregate]_vars

\* ---- the ChatManager, on its own ----
InitialMessages == {None, Some(<<>>), Some(<<"u">>)}
StoredMessages ==
  {Message("user", Some(<<"u">>), None, None),
   Message("tool", Some(<<"output">>), None, Some("FileRead"))}
\* generateId never gives the same id twice: an id is fresh until it was handed out
Fresh(id) == trace[id] = <<>>

CreateSession ==
  \E id \in Sessions, initialMessage \in InitialMessages :
    /\ Fresh(id)
    /\ sessions' = createSessionWith(State, id, initialMessage).sessions
    /\ trace' = Emit(State, id, "createSession", "", TRUE).trace
    /\ call' = [op |-> "createSession", id |-> id, message |-> None, result |-> id]
    /\ UNCHANGED <<activeSessions, sessionPermissions, frame, transport>>

AddMessage ==
  \E id \in Sessions, m \in StoredMessages :
    /\ Len(getMessages(State, id)) < MaxMessages
    /\ sessions' = addMessage(State, id, m).sessions
    /\ call' = [op |-> "addMessage", id |-> id, message |-> Some(m),
                result |-> addMessageReturns(State, id)]
    /\ UNCHANGED <<activeSessions, sessionPermissions, frame, transport, trace>>

GetMessages ==
  \E id \in Sessions :
    /\ call' = [op |-> "getMessages", id |-> id, message |-> None,
                result |-> getMessagesOrAbsent(State, id)]
    /\ UNCHANGED <<activeSessions, sessionPermissions, sessions, frame, transport, trace>>

GetSession ==
  \E id \in Sessions :
    /\ call' = [op |-> "getSession", id |-> id, message |-> None,
                result |-> getSession(State, id)]
    /\ UNCHANGED <<activeSessions, sessionPermissions, sessions, frame, transport, trace>>

DeleteSession ==
  \E id \in Sessions :
    /\ sessions' = deleteSession(State, id).sessions
    /\ call' = [op |-> "deleteSession", id |-> id, message |-> None,
                result |-> deleteSessionReturns(State, id)]
    /\ UNCHANGED <<activeSessions, sessionPermissions, frame, transport, trace>>

NextChatManager ==
  \/ CreateSession
  \/ AddMessage
  \/ GetMessages
  \/ GetSession
  \/ DeleteSession

SpecChatManager == Init /\ [][NextChatManager]_vars

\* ---- the EventEmitter Orchestrator: chat(sessionId, request), batch replies ----
\* Its frames and transport calls are those of the invocations of chat(); the
\* session an invocation works on is its argument.  client.isActive belongs to the
\* LLM client: each piece of code reads one value of it.
Invocations == {"c1", "c2"}
NewEmitterFrame ==
  [pc |-> "new", sessionId |-> "", iterationCount |-> 0, toolCalls |-> <<>>, idx |-> 0,
   response |-> None]
RequestMessages == <<Message("user", Some(<<"q">>), None, None)>>
\* the LLM asks the first invocation for at most MaxCalls tool calls, the second
\* one for none
EmitterCallBudget(c) == IF c = "c1" THEN MaxCalls ELSE 0
EmitterReplies(round, callsLeft) ==
  {[message |-> m, thinking |-> None] :
     m \in {None} \cup {Some(Message("assistant", Some(<<"r">>), tc, None)) :
                          tc \in ToolCallPayloads(round, callsLeft)}}

InitEmitter ==
  /\ activeSessions = EmptyMap
  /\ sessionPermissions = EmptyMap
  /\ sessions = EmptyMap
  /\ frame = [c \in Invocations |-> NewEmitterFrame]
  /\ transport = [c \in Invocations |-> IdleTransport(EmitterCallBudget(c))]
  /\ trace = [s \in Sessions |-> <<>>]
  /\ call = None

\* what the ChatManager saw: who created a session, who appended in which iteration
StoreEvent(ev, by, round, role) == [ev |-> ev, by |-> by, round |-> round, role |-> role]

\* chatManager.addMessage(sessionId, message) by invocation c
emitterAddMessage(g, c, m) ==
  LET id == g.frame[c].sessionId
      g1 == addMessage(g, id, m)
  IN IF addMessageReturns(g, id)
       THEN [g1 EXCEPT !.trace[id] =
               Append(@, StoreEvent("addMessage", c, g.frame[c].iterationCount, m.role))]
       ELSE g1

\* processChatLoop is over and chat() returns the response emitter
emitterReturn(g, c) ==
  [g EXCEPT !.frame[c].pc = "resolved", !.frame[c].toolCalls = <<>>,
            !.frame[c].idx = 0, !.frame[c].response = None,
            !.transport[c] = IdleTransport(@.callsLeft)]

\* the body of the while loop of processChatLoop up to `await client.chat`
emitterLoopHead(g, c, isActive) ==
  IF ~isActive
    THEN emitterReturn(g, c)
    ELSE LET sessionMessages == getMessages(g, g.frame[c].sessionId)
         IN [g EXCEPT !.frame[c].iterationCount = @ + 1,
                      !.frame[c].pc = "awaitChat",
                      !.frame[c].toolCalls = <<>>, !.frame[c].idx = 0,
                      !.frame[c].response = None,
                      !.transport[c].state = "pending",
                      !.transport[c].request =
                        IF Len(sessionMessages) > 0 THEN sessionMessages
                                                    ELSE RequestMessages]

\* processResponse has returned: hasToolCalls and the while condition
emitterAfterResponse(g, c, isActive) ==
  LET response == Get(g.frame[c].response)
  IN IF IsSome(response.message) /\ HasToolCalls(Get(response.message))
       THEN emitterLoopHead(g, c, isActive)
       ELSE emitterReturn(g, c)

\* the for loop of handleToolCalls at call number idx, up to `await execute`
emitterHandleToolCalls(g, c, isActive) ==
  IF g.frame[c].idx > Len(g.frame[c].toolCalls)
    THEN emitterAfterResponse(g, c, isActive)
    ELSE [g EXCEPT !.frame[c].pc = "awaitTool"]

\* ParserNonStream.processResponse
emitterProcessResponse(g, c, response, isActive) ==
  LET g0 == [g EXCEPT !.frame[c].response = Some(response)]
  IN IF IsSome(response.message)
       THEN LET m == Get(response.message)
                g1 == emitterAddMessage(g0, c, m)
            IN IF HasToolCalls(m)
                 THEN emitterHandleToolCalls(
                        [g1 EXCEPT !.frame[c].toolCalls = Get(m.tool_calls),
                                   !.frame[c].idx = 1], c, isActive)
                 ELSE emitterAfterResponse(g1, c, isActive)
       ELSE emitterAfterResponse(g0, c, isActive)

\* handleToolCalls after `await execute`: the tool message, then the next call
emitterToolDone(g, c, output, isActive) ==
  LET f == g.frame[c]
      toolName == extractToolCallData(f.toolCalls[f.idx]).toolName
      g1 == emitterAddMessage(g, c, Message("tool", Some(execute(toolName, output)),
                                            None, Some(toolName)))
  IN emitterHandleToolCalls([g1 EXCEPT !.frame[c].idx = @ + 1], c, isActive)

\* the application calls orchestrator.createSession(initialMessage)
EmitterCreateSession ==
  \E id \in Sessions, initialMessage \in InitialMessages :
    /\ Fresh(id)
    /\ Install([createSessionWith(State, id, initialMessage) EXCEPT
                  !.trace[id] = <<StoreEvent("createSession", "", 0, "")>>])

\* the application calls chat(sessionId, request)
EmitterChat(c) ==
  /\ frame[c].pc = "new"
  /\ \E id \in Sessions, isActive \in BOOLEAN :
       Install(emitterLoopHead([State EXCEPT !.frame[c].sessionId = id], c, isActive))

\* client.chat resolves with a batch reply
EmitterReply(c) ==
  /\ frame[c].pc = "awaitChat"
  /\ \E response \in EmitterReplies(frame[c].iterationCount, transport[c].callsLeft),
        isActive \in BOOLEAN :
       LET g == [State EXCEPT
                   !.transport[c].callsLeft =
                     @ - (IF IsSome(response.message)
                            THEN PayloadSize(Get(response.message).tool_calls) ELSE 0)]
       IN IF ~isActive
            THEN Install(emitterReturn(g, c))
            ELSE Install(emitterProcessResponse(g, c, response, isActive))

\* the tool settles
EmitterToolDone(c) ==
  /\ frame[c].pc = "awaitTool"
  /\ \E output \in ToolOutputs, isActive \in BOOLEAN :
       Install(emitterToolDone(State, c, output, isActive))

\* client.chat rejects: chat() emits 'error' on an emitter nobody listens to yet
EmitterTransportFailure(c) ==
  /\ frame[c].pc = "awaitChat"
  /\ Install([emitterReturn(State, c) EXCEPT !.frame[c].pc = "rejected"])

NextEmitter ==
  \/ EmitterCreateSession
  \/ \E c \in Invocations : EmitterChat(c)
  \/ \E c \in Invocations : EmitterReply(c)
  \/ \E c \in Invocations : EmitterToolDone(c)
  \/ \E c \in Invocations : EmitterTransportFailure(c)

SpecEmitter == InitEmitter /\ [][NextEmitter]_vars

\* ---- getSafePath: paths are strings, a string is the sequence of its characters ----
PathChars == {"/", ".", "~", "a", "b"}
Paths == UNION {[1..n -> PathChars] : n \in 0..MaxPathLen}
\* process.cwd(), the trusted root
Cwd == <<"/", "a">>
MaxPathLength == 500
Letters ==
  {"a", "b", "c", "d", "e", "f", "g", "h", "i", "j", "k", "l", "m", "n", "o", "p", "q",
   "r", "s", "t", "u", "v", "w", "x", "y", "z", "A", "B", "C", "D", "E", "F", "G", "H",
   "I", "J", "K", "L", "M", "N", "O", "P", "Q", "R", "S", "T", "U", "V", "W", "X", "Y",
   "Z"}
\* the denylists of the security constants: a credential file, a dependency
\* directory, a key-file extension, a pattern searched in the whole path
blacklistedFiles == {<<".", "b">>}
blacklistedDir == {<<"b">>}
blacklistedExt == {<<".", "b">>}
dangerousPatterns == {<<"b", "b">>}

\* String.prototype.startsWith and includes
StartsWith(s, prefix) == Len(s) >= Len(prefix) /\ SubSeq(s, 1, Len(prefix)) = prefix
Includes(s, part) ==
  \E i \in 1..(Len(s) - Len(part) + 1) : SubSeq(s, i, i + Len(part) - 1) = part

\* /^[A-Za-z]:[\\/]/
IsDrivePath(path) ==
  Len(path) >= 3 /\ path[1] \in Letters /\ path[2] = ":" /\ path[3] \in {"\\", "/"}

\* node:path (posix)
isAbsolute(path) == Len(path) > 0 /\ path[1] = "/"

RECURSIVE SplitPath(_)
\* the pieces of a path between its separators, empty pieces included
SplitPath(path) ==
  IF path = <<>> THEN << <<>> >>
  ELSE LET rest == SplitPath(Tail(path))
       IN IF Head(path) = "/" THEN << <<>> >> \o rest
          ELSE << <<Head(path)>> \o rest[1] >> \o Tail(rest)

RECURSIVE JoinPath(_)
JoinPath(segments) ==
  IF segments = <<>> THEN <<>>
  ELSE IF Len(segments) = 1 THEN segments[1]
  ELSE segments[1] \o <<"/">> \o JoinPath(Tail(segments))

RECURSIVE normalizeString(_, _, _)
\* drops empty and '.' segments; '..' removes the segment before it, or is kept
\* (allowAboveRoot) or dropped when there is none to remove
normalizeString(segments, res, allowAboveRoot) ==
  IF segments = <<>> THEN res
  ELSE LET seg == Head(segments)
           next ==
             IF seg = <<>> \/ seg = <<".">> THEN res
             ELSE IF seg = <<".", ".">>
               THEN IF res # <<>> /\ res[Len(res)] # <<".", ".">>
                      THEN SubSeq(res, 1, Len(res) - 1)
                    ELSE IF allowAboveRoot THEN Append(res, seg) ELSE res
             ELSE Append(res, seg)
       IN normalizeString(Tail(segments), next, allowAboveRoot)

normalize(path) ==
  IF path = <<>> THEN <<".">>
  ELSE LET absolute == isAbsolute(path)
           trailingSeparator == path[Len(path)] = "/"
           body == JoinPath(normalizeString(SplitPath(path), <<>>, ~absolute))
       IN IF body = <<>>
            THEN IF absolute THEN <<"/">>
                 ELSE IF trailingSeparator THEN <<".", "/">> ELSE <<".">>
            ELSE (IF absolute THEN <<"/">> ELSE <<>>) \o body
                   \o (IF trailingSeparator THEN <<"/">> ELSE <<>>)

\* variant of resolve: the joined path is returned as it is written
resolveWithoutNormalizing(from, to) ==
  IF isAbsolute(to) THEN to ELSE from \o <<"/">> \o to

\* resolve(from, to) for an absolute from
resolve(from, to) ==
  LET joined == IF isAbsolute(to) THEN to ELSE from \o <<"/">> \o to
  IN <<"/">> \o JoinPath(normalizeString(SplitPath(joined), <<>>, FALSE))

\* the non-empty pieces of a path
Parts(path) == SelectSeq(SplitPath(path), LAMBDA seg : seg # <<>>)
basename(path) == IF Parts(path) = <<>> THEN <<>> ELSE Parts(path)[Len(Parts(path))]
dirname(path) ==
  LET ends == {i \in 1..Len(path) : path[i] # "/"}
      end == IF ends = {} THEN 0 ELSE CHOOSE i \in ends : \A j \in ends : j <= i
      slashes == {i \in 1..end : path[i] = "/"}
      cut == IF slashes = {} THEN 0 ELSE CHOOSE i \in slashes : \A j \in slashes : j <= i
  IN IF end = 0 THEN (IF path = <<>> THEN <<".">> ELSE <<"/">>)
     ELSE IF cut = 0 THEN <<".">>
     ELSE IF cut = 1 THEN <<"/">>
     ELSE SubSeq(path, 1, cut - 1)
extname(path) ==
  LET name == basename(path)
      dots == {i \in 1..Len(name) : name[i] = "."}
      startDot == IF dots = {} THEN 0 ELSE CHOOSE i \in dots : \A j \in dots : j <= i
  IN IF startDot <= 1 \/ name = <<".", ".">> THEN <<>>
     ELSE SubSeq(name, startDot, Len(name))

isPathSafe(path) ==
  /\ basename(path) \notin blacklistedFiles
  /\ basename(dirname(path)) \notin blacklistedDir
  /\ extname(path) \notin blacklistedExt
  /\ \A pattern \in dangerousPatterns : ~Includes(path, pattern)

Failure(message) == [success |-> FALSE, message |-> message, path |-> <<>>]

getSafePath(path) ==
  IF IsDrivePath(path) THEN Failure("Windows drive paths are not allowed")
  ELSE LET resolvedPath == IF isAbsolute(path) THEN normalize(path)
                                               ELSE resolve(Cwd, normalize(path))
       IN IF isAbsolute(path) /\ ~StartsWith(resolvedPath, Cwd)
            THEN Failure("Absolute path outside project directory")
          ELSE IF ~isAbsolute(path)
                  /\ (Includes(resolvedPath, <<".", ".">>) \/ Includes(resolvedPath, <<"~">>))
            THEN Failure("Path contains traversal patterns")
          ELSE IF ~isAbsolute(path) /\ ~StartsWith(resolvedPath, Cwd)
            THEN Failure("Path resolved outside project directory")
          ELSE IF ~isPathSafe(resolvedPath)
            THEN Failure("Path contains dangerous files or patterns")
          ELSE IF Len(resolvedPath) > MaxPathLength
            THEN Failure("Path is too long (maximum 500 characters)")
          ELSE [success |-> TRUE, message |-> "", path |-> resolvedPath]

InitSandbox ==
  /\ Constructed
  /\ call \in {[op |-> "getSafePath", path |-> p, result |-> None, again |-> None,
                joined |-> None] : p \in Paths}

\* a tool hands the path it was given to getSafePath
ResolvePath ==
  /\ call.result = None
  /\ call' = [call EXCEPT !.result = Some(getSafePath(call.path))]
  /\ UNCHANGED <<activeSessions, sessionPermissions, sessions, frame, transport, trace>>

\* a path that getSafePath returned is handed to getSafePath once more
ResolveAgain ==
  /\ call.result # None /\ Get(call.result).success
  /\ call.again = None
  /\ call' = [call EXCEPT !.again = Some(getSafePath(Get(call.result).path))]
  /\ UNCHANGED <<activeSessions, sessionPermissions, sessions, frame, transport, trace>>

\* the same location written as an absolute path: the root, a separator, the
\* relative path
ResolveJoined ==
  /\ ~isAbsolute(call.path)
  /\ call.joined = None
  /\ call' = [call EXCEPT !.joined = Some(getSafePath(Cwd \o <<"/">> \o call.path))]
  /\ UNCHANGED <<activeSessions, sessionPermissions, sessions, frame, transport, trace>>

NextSandbox == ResolvePath \/ ResolveAgain \/ ResolveJoined

SpecSandbox == InitSandbox /\ [][NextSandbox]_vars

TypeOK ==
  /\ DOMAIN activeSessions \subseteq Sessions
  /\ \A s \in Sessions : frame[s].iterationCount <= MaxRounds

\* ---- reading the trace ----
Evs(s, ev) == {i \in 1..Len(trace[s]) : trace[s][i].ev = ev}
Count(s, ev) == Cardinality(Evs(s, ev))
SameCall(e1, e2) == e1.round = e2.round /\ e1.call = e2.call
Roles(s) == [i \in 1..Len(getMessages(State, s)) |-> getMessages(State, s)[i].role]
Started(s) == frame[s].pc # "new"
Granting == {"approve", "allow_all", "allow_all_recorded", "no_asker"}

\* the ground on which permission entry k of session s was decided is what it says
GrantBasis(s, k) ==
  LET e == trace[s][k] IN
  \/ /\ e.info \in {"approve", "allow_all"}
     /\ k > 1 /\ trace[s][k - 1].ev = "ask" /\ SameCall(trace[s][k - 1], e)
  \/ /\ e.info = "allow_all_recorded"
     /\ \E m \in 1..(k - 1) : trace[s][m].ev = "permission" /\ trace[s][m].info = "allow_all"
  \/ /\ e.info = "no_asker"
     /\ ~frame[s].hasAsker

\* C1: every tool execution of a session comes after the onToolCall event of that
\* same call and, after that event, a permission decision for that call that was a
\* grant: the asker answered approve or allow_all, allow-all was already recorded,
\* or no asker is configured.
C1_ExecutionsApproved ==
  \A s \in Sessions : \A i \in Evs(s, "execute") :
    \E j \in 1..(i - 1), k \in 1..(i - 1) :
      /\ j < k
      /\ trace[s][j].ev = "onToolCall" /\ SameCall(trace[s][j], trace[s][i])
      /\ trace[s][j].info = trace[s][i].info
      /\ trace[s][k].ev = "permission" /\ SameCall(trace[s][k], trace[s][i])
      /\ trace[s][k].ok /\ GrantBasis(s, k)

\* two tools have run in a session, one of them on the asker's approve
C1_Witness ==
  \E s \in Sessions : \E i \in Evs(s, "execute"), k \in Evs(s, "permission") :
    /\ k < i /\ SameCall(trace[s][k], trace[s][i])
    /\ trace[s][k].info = "approve"
    /\ Count(s, "execute") = 2

\* C2: when the asker answers deny for call number c of a turn, no call of that turn
\* numbered c or more is ever executed, and exactly one onAbort event is emitted for
\* the session.
C2_DenyStopsTurn ==
  \A s \in Sessions : \A k \in Evs(s, "permission") :
    trace[s][k].info = "deny" =>
      /\ \A i \in Evs(s, "execute") :
           trace[s][i].round = trace[s][k].round => trace[s][i].call < trace[s][k].call
      /\ Count(s, "onAbort") = 1

\* the first of two calls was denied and the chat has returned
C2_Witness ==
  \E s \in Sessions : \E k \in Evs(s, "permission") :
    /\ trace[s][k].info = "deny" /\ trace[s][k].call = 1
    /\ \E i \in 1..Len(getMessages(State, s)) :
         /\ getMessages(State, s)[i].role = "assistant"
         /\ IsSome(getMessages(State, s)[i].tool_calls)
         /\ Len(Get(getMessages(State, s)[i].tool_calls)) = 2
    /\ frame[s].pc = "resolved"

\* C3: once allow-all is recorded for a session it stays recorded under every later
\* operation, the asker is never invoked for that session again, and every later
\* permission request of the session is granted on the recorded allow-all.
C3_AllowAllSticks ==
  [][\A s \in Sessions :
       AllowAll(State, s) =>
         /\ AllowAll(State, s)'
         /\ Count(s, "ask")' = Count(s, "ask")
         /\ \A i \in (Len(trace[s]) + 1)..Len(trace'[s]) :
              trace'[s][i].ev = "permission" =>
                trace'[s][i].ok /\ trace'[s][i].info = "allow_all_recorded"]_vars

\* allow-all was recorded, a later call went through on it, then abort-all was called
C3_Witness ==
  \E s \in Sessions :
    /\ AllowAll(State, s)
    /\ \E k \in Evs(s, "permission") : trace[s][k].info = "allow_all_recorded"
    /\ s \notin DOMAIN activeSessions

\* C4: a permission request never throws, and it is granted exactly when allow-all is
\* already recorded, no asker is configured, or the asker resolves with approve or
\* allow_all; deny, any other value and a throwing or rejecting asker give false.
C4_PermissionVerdict ==
  \A s \in Sessions :
    /\ \A k \in Evs(s, "permission") :
         LET e == trace[s][k]
             recorded == \E m \in 1..(k - 1) :
                           trace[s][m].ev = "permission" /\ trace[s][m].info = "allow_all"
         IN /\ e.ok = (e.info \in Granting)
            /\ (e.info = "allow_all_recorded") = recorded
            /\ (e.info = "no_asker") = ~frame[s].hasAsker
            /\ e.info \in AskerAnswers =>
                 k > 1 /\ trace[s][k - 1].ev = "ask" /\ SameCall(trace[s][k - 1], e)
    /\ \A i \in Evs(s, "ask") :
         IF i = Len(trace[s]) THEN frame[s].pc = "awaitPermission"
         ELSE trace[s][i + 1].ev = "permission" /\ SameCall(trace[s][i + 1], trace[s][i])

\* the asker threw, and the request came back false
C4_Witness ==
  \E s \in Sessions : \E k \in Evs(s, "permission") :
    trace[s][k].info = "throw" /\ ~trace[s][k].ok

\* C5: from the moment the liveness flag of a session is false, no tool execution
\* starts and no LLM request is issued for that session.
C5_InactiveStopsWork ==
  [][\A s \in Sessions :
       (Started(s) /\ ~IsActive(State, s)) =>
         /\ Count(s, "execute")' = Count(s, "execute")
         /\ Count(s, "request")' = Count(s, "request")]_vars

\* C6: a session is active from its creation in chat(); it becomes inactive only by
\* abort-all, by abort() on its handle, by a denied permission or by the failure of
\* its loop, each of which leaves it inactive; once inactive it stays inactive.
C6_LivenessMonotonic ==
  [][\A s \in Sessions :
       /\ (~Started(s) /\ Started(s)') => IsActive(State, s)'
       /\ (Started(s) /\ ~IsActive(State, s)) => ~IsActive(State, s)'
       /\ (IsActive(State, s) /\ ~IsActive(State, s)') =>
            \/ s \notin DOMAIN activeSessions'
            \/ frame[s].pc = "resolved"
            \/ frame'[s].pc = "rejected"
            \/ Count(s, "onAbort")' > Count(s, "onAbort")
       /\ ( \/ Abort
            \/ AbortSession(s)
            \/ Count(s, "chatRejected")' > Count(s, "chatRejected")
            \/ Count(s, "onAbort")' > Count(s, "onAbort") ) => ~IsActive(State, s)']_vars

\* the handle of a returned chat was aborted: the flag is stored as false
C6_Witness ==
  \E s \in Sessions :
    /\ frame[s].pc = "resolved"
    /\ s \in DOMAIN activeSessions /\ ~activeSessions[s]
    /\ Count(s, "onAbort") = 0

\* C7 as claimed: a transport failure never makes chat() reject; it is reported by
\* an abort event.
C7_FailureReportedByEvent ==
  \A s \in Sessions :
    Count(s, "transportFailure") > 0 =>
      frame[s].pc # "rejected" /\ Count(s, "onAbort") > 0

\* C7 as amended: a transport failure at any iteration makes chat() reject to its
\* caller; the session is left inactive, nothing is emitted between the failure and
\* the rejection, and nothing happens for the session after it (no further request).
C7_FailureRejectsChat ==
  \A s \in Sessions :
    Count(s, "transportFailure") > 0 =>
      /\ frame[s].pc = "rejected"
      /\ ~IsActive(State, s)
      /\ Count(s, "transportFailure") = 1
      /\ Len(trace[s]) >= 2
      /\ trace[s][Len(trace[s]) - 1].ev = "transportFailure"
      /\ trace[s][Len(trace[s])].ev = "chatRejected"

\* the transport failed on the second request of a chat
C7_Witness ==
  \E s \in Sessions :
    /\ frame[s].pc = "rejected" /\ frame[s].iterationCount = 2
    /\ Count(s, "execute") > 0

\* C8: when the first reply of a chat is complete and carries no tool call, exactly
\* one LLM request is issued, no permission is requested, no tool is executed, and
\* chat() returns (in a stream, once the iterator is exhausted).
C8_SingleRoundTrip ==
  \A s \in Sessions :
    (\E i \in Evs(s, "reply") :
        trace[s][i].round = 1 /\ trace[s][i].info = "no_tool_calls") =>
      /\ Count(s, "request") = 1
      /\ Count(s, "ask") = 0 /\ Count(s, "permission") = 0 /\ Count(s, "execute") = 0
      /\ \/ frame[s].pc = "resolved"
         \/ frame[s].stream /\ frame[s].pc = "awaitChunk" /\ transport[s].doneSent

\* a streamed first reply without tool calls, and the chat has returned
C8_Witness ==
  \E s \in Sessions :
    /\ frame[s].stream /\ frame[s].pc = "resolved" /\ IsActive(State, s)
    /\ \E i \in Evs(s, "reply") :
         trace[s][i].round = 1 /\ trace[s][i].info = "no_tool_calls"

\* the scenario of C9: the first reply asks for one tool, which is approved and
\* executed, the second reply asks for none, and nothing aborts the session
C9_Scenario(s) ==
  /\ frame[s].pc = "resolved" /\ IsActive(State, s)
  /\ Count(s, "request") = 2 /\ Count(s, "reply") = 2
  /\ Count(s, "onToolCall") = 1 /\ Count(s, "execute") = 1
  /\ Count(s, "onToolResult") = 1

\* C9 as claimed: the scenario leaves exactly the 4 messages user, assistant, tool,
\* assistant in the history.
C9_FourMessages ==
  \A s \in Sessions :
    C9_Scenario(s) => Roles(s) = <<"user", "assistant", "tool", "assistant">>

\* C9 as amended: the scenario leaves exactly 5 messages in the history: the user
\* message, the system prompt, the assistant message with the tool call, the tool
\* result carrying that tool's name, and the final assistant message.
C9_FiveMessages ==
  \A s \in Sessions :
    C9_Scenario(s) =>
      LET h == getMessages(State, s) IN
      /\ Roles(s) = <<"user", "system", "assistant", "tool", "assistant">>
      /\ HasToolCalls(h[3]) /\ Len(Get(h[3].tool_calls)) = 1
      /\ h[4].tool_name = Some(extractToolCallData(Get(h[3].tool_calls)[1]).toolName)
      /\ ~HasToolCalls(h[5])

C9_Witness == C9_Scenario("s1") /\ frame["s1"].stream /\ frame["s1"].hasAsker

\* the last assistant message of the history carries at least one tool call
LastAssistantHasCalls(s) ==
  LET h == getMessages(State, s)
      idxs == {i \in 1..Len(h) : h[i].role = "assistant"}
  IN idxs # {} /\ HasToolCalls(h[CHOOSE i \in idxs : \A j \in idxs : j <= i])

\* C10: every LLM request carries the complete history of the session in append
\* order; a request after the first one is issued only when the last assistant
\* message of the history carried a tool call and the session is active, and the
\* loop ends without a further request only when that is not so.
C10_RequestsFollowToolTurns ==
  [][\A s \in Sessions :
       /\ Count(s, "request")' > Count(s, "request") =>
            /\ transport'[s].request = getMessages(State, s)'
            /\ Count(s, "request") > 0 =>
                 LastAssistantHasCalls(s)' /\ IsActive(State, s)'
       /\ (Started(s) /\ frame[s].pc # "resolved" /\ frame'[s].pc = "resolved") =>
            ~(LastAssistantHasCalls(s)' /\ IsActive(State, s)')]_vars

\* ---- reading the history ----
History(s) == getMessages(State, s)
\* how many of the first n messages of the history are tool results
ToolMessagesIn(s, n) == Cardinality({j \in 1..n : j <= Len(History(s)) /\ History(s)[j].role = "tool"})
\* the position in the trace of the k-th event ev of session s
NthEv(s, ev, k) == CHOOSE i \in Evs(s, ev) : Cardinality({j \in Evs(s, ev) : j <= i}) = k
\* the tool names an assistant message asks for
CalledTools(m) ==
  IF HasToolCalls(m)
    THEN {extractToolCallData(Get(m.tool_calls)[c]).toolName : c \in 1..Len(Get(m.tool_calls))}
    ELSE {}

\* C11: every tool-role message of a history carries a tool name, which is the name
\* of the tool that was executed to produce it, and an assistant message whose
\* tool-call list contains a call to that tool stands at an earlier index.
C11_ToolMessagesAttributed ==
  \A s \in Sessions : \A i \in 1..Len(History(s)) :
    History(s)[i].role = "tool" =>
      /\ IsSome(History(s)[i].tool_name)
      /\ ToolMessagesIn(s, i) <= Count(s, "execute")
      /\ Get(History(s)[i].tool_name) =
           trace[s][NthEv(s, "execute", ToolMessagesIn(s, i))].info
      /\ \E j \in 1..(i - 1) :
           /\ History(s)[j].role = "assistant"
           /\ Get(History(s)[i].tool_name) \in CalledTools(History(s)[j])

\* a history holds the result of a registered tool and the result of a call that
\* named no tool
C11_Witness ==
  \E s \in Sessions : \E i, j \in 1..Len(History(s)) :
    /\ History(s)[i].role = "tool" /\ History(s)[i].tool_name = Some("FileRead")
    /\ History(s)[j].role = "tool" /\ History(s)[j].tool_name = Some("")

\* C13: when the onToolResult event of a tool call is emitted, the tool-role message
\* of that call is already in the session's history.
C13_ResultAppendedBeforeEvent ==
  \A s \in Sessions : \A i \in Evs(s, "onToolResult") :
    ToolMessagesIn(s, trace[s][i].len) >= Cardinality({j \in Evs(s, "onToolResult") : j <= i})

\* the message the stream has assembled so far carries a tool call
PartialHasCalls(s) ==
  IsSome(frame[s].currentMessage) /\ HasToolCalls(Get(frame[s].currentMessage))

\* C16: when a stream is cancelled before its done chunk (the iterator throws an
\* AbortError), processStreamingResponse does not throw: chat() is not rejected, the
\* history is exactly what it was when the turn's request was issued (the partial
\* message is not appended), no tool call of the partial message is announced or
\* executed, and the loop goes on with the returned partial message: a next request
\* exactly when it carries a tool call and the session is active, else chat() returns.
C16_CancelledStreamLeavesHistory ==
  [][\A s \in Sessions :
       StreamAbortError(s) =>
         /\ frame'[s].pc # "rejected"
         /\ History(s)' = transport[s].request
         /\ History(s)' = History(s)
         /\ Count(s, "execute")' = Count(s, "execute")
         /\ Count(s, "onToolCall")' = Count(s, "onToolCall")
         /\ IF PartialHasCalls(s) /\ IsActive(State, s)
              THEN Count(s, "request")' = Count(s, "request") + 1
              ELSE frame'[s].pc = "resolved"]_vars

\* a stream was cancelled with a partial message that asked for a tool: the second
\* request went out although no reply was ever complete
C16_Witness ==
  \E s \in Sessions :
    /\ Count(s, "request") = 2 /\ Count(s, "reply") = 0
    /\ Count(s, "transportFailure") = 0 /\ Count(s, "execute") = 0

\* tool names outside the executor's switch
UnregisteredNames == {"", "Nope", "fileread", "FileRead "}

\* the name of the tool call a session is executing
ExecutingTool(s) == extractToolCallData(frame[s].toolCalls[frame[s].idx]).toolName

\* C17: for every tool name outside the registered set, the empty name included,
\* execute resolves to 'Unknown tool: <name>'; when such a call settles, that string
\* is appended as the tool message of the call, chat() is not rejected, and an
\* active session goes on: to the next call of the list, or after the last call to
\* the next request (in a stream, back to the iterator first).
C17_UnknownToolIsAResult ==
  [][/\ \A n \in UnregisteredNames, o \in ToolOutputs :
          execute(n, o) = <<"Unknown tool: ", n>>
     /\ \A s \in Sessions :
          (ToolDone(s) /\ ExecutingTool(s) \notin RegisteredTools) =>
            /\ History(s)' =
                 Append(History(s),
                        Message("tool", Some(<<"Unknown tool: ", ExecutingTool(s)>>),
                                None, Some(ExecutingTool(s))))
            /\ frame'[s].pc # "rejected"
            /\ IsActive(State, s) =>
                 IF frame[s].idx < Len(frame[s].toolCalls)
                   THEN Count(s, "onToolCall")' = Count(s, "onToolCall") + 1
                 ELSE IF frame[s].stream
                   THEN frame'[s].pc = "awaitChunk"
                   ELSE Count(s, "request")' = Count(s, "request") + 1]_vars

\* the result of an unknown tool is in the history, and after it the result of the
\* next call of the same list and the reply to the next request
C17_Witness ==
  \E s \in Sessions : \E i \in 1..Len(History(s)) :
    /\ History(s)[i].role = "tool"
    /\ History(s)[i].content = Some(<<"Unknown tool: ", "">>)
    /\ i + 2 <= Len(History(s))
    /\ History(s)[i + 1].role = "tool" /\ History(s)[i + 2].role = "assistant"

\* C12: the history of a session only grows at its end: in every step the history
\* before the step is a prefix of the history after it, message for message. This
\* covers permission denial, transport failure, abort of a handle, abort-all, and
\* a stream chunk that arrives after a message was appended.
C12_HistoryAppendOnly ==
  [][\A s \in DOMAIN sessions :
       /\ s \in DOMAIN sessions'
       /\ Len(History(s)') >= Len(History(s))
       /\ SubSeq(History(s)', 1, Len(History(s))) = History(s)]_vars

\* C15: the done chunk ends the aggregation of a streamed turn: a chunk the iterator
\* yields after it is not applied to the message, nothing is appended for it, and
\* none of it is processed (no event, no tool call).
C15_DoneEndsAggregation ==
  [][\A s \in Sessions :
       LateChunk(s) =>
         /\ History(s)' = History(s)
         /\ trace'[s] = trace[s]]_vars

\* ---- the reference reducer of C14 ----
RECURSIVE ConcatContent(_)
\* the contents of the messages ms, one after the other
ConcatContent(ms) ==
  IF ms = <<>> THEN <<>>
  ELSE (IF IsSome(ms[1].content) THEN Get(ms[1].content) ELSE <<>>)
         \o ConcatContent(Tail(ms))

\* the first chunk with a message is the seed; its content is followed by the
\* content of the later chunks; the tool-call list is the last payload carried
ReferenceMessage(cs) ==
  LET mc == SelectSeq(cs, LAMBDA c : IsSome(c.message))
      ms == [i \in 1..Len(mc) |-> Get(mc[i].message)]
      withContent == {i \in 1..Len(ms) : IsSome(ms[i].content)}
      withCalls == {i \in 1..Len(ms) : IsSome(ms[i].tool_calls)}
      last == CHOOSE i \in withCalls : \A j \in withCalls : j <= i
  IN IF Len(ms) = 0 THEN None
     ELSE Some([ms[1] EXCEPT
                  !.content = IF withContent = {} THEN None ELSE Some(ConcatContent(ms)),
                  !.tool_calls = IF withCalls = {} THEN None ELSE ms[last].tool_calls])

\* C14: after any number of chunks of a stream, the done chunk included, the message
\* the aggregation holds is the one the reference reducer gives for those chunks:
\* seeded by the first chunk with a message, content appended in order, tool-call
\* list replaced by each payload (chunks Hel, lo, done give Hello).
C14_AggregationIsReference ==
  call.currentMessage = ReferenceMessage(SubSeq(call.chunks, 1, call.pos))

\* the stream Hel, lo, done has been aggregated to Hello
C14_Witness ==
  /\ call.pos = Len(call.chunks) /\ call.pos = 3
  /\ call.chunks[3].done /\ call.chunks[3].message = None
  /\ call.chunks[1].message = Some(Message("assistant", Some(<<"Hel">>), None, None))
  /\ call.chunks[2].message = Some(Message("assistant", Some(<<"lo">>), None, None))
  /\ call.currentMessage = Some(Message("assistant", Some(<<"Hel", "lo">>), None, None))

\* C19: addMessage on an id that is unknown or was deleted returns false and leaves
\* every session as it is, creating none; getMessages and getSession on such an id
\* return absent and change nothing; addMessage on an existing id returns true and
\* the message becomes the last element of that session's history and of no other.
C19_UnknownSessionIsNoOp ==
  [][LET c == call' IN
     /\ c.op = "addMessage" =>
          IF c.id \notin DOMAIN sessions
            THEN c.result = FALSE /\ sessions' = sessions
            ELSE /\ c.result = TRUE
                 /\ DOMAIN sessions' = DOMAIN sessions
                 /\ sessions'[c.id].messages =
                      Append(sessions[c.id].messages, Get(c.message))
                 /\ \A o \in DOMAIN sessions \ {c.id} : sessions'[o] = sessions[o]
     /\ c.op \in {"getMessages", "getSession"} =>
          /\ sessions' = sessions
          /\ c.id \notin DOMAIN sessions => c.result = None]_vars

\* addMessage was called with the id of a deleted session and returned false, beside
\* a session that holds messages
C19_Witness ==
  /\ call # None /\ call.op = "addMessage" /\ call.result = FALSE
  /\ ~Fresh(call.id) /\ call.id \notin DOMAIN sessions
  /\ \E o \in DOMAIN sessions : Len(sessions[o].messages) = MaxMessages

\* the appends to session id, in the order of the history
Appends(id) == SelectSeq(trace[id], LAMBDA e : e.ev = "addMessage")

\* C18: in the history of a session, the messages one call of chat(sessionId,
\* request) appends in one loop iteration (the assistant message and the results of
\* its tool calls) stand next to each other: no message appended by the other,
\* concurrent call on the same session id stands between them.
C18_TurnsNotInterleaved ==
  \A id \in Sessions : \A i, j, k \in 1..Len(Appends(id)) :
    (i < j /\ j < k /\ Appends(id)[i].by = Appends(id)[k].by
              /\ Appends(id)[i].round = Appends(id)[k].round) =>
      (Appends(id)[j].by = Appends(id)[i].by /\ Appends(id)[j].round = Appends(id)[i].round)

\* a normalized absolute path is the root or lies below it
WithinRoot(path) == path = Cwd \/ StartsWith(path, Cwd \o <<"/">>)

\* C20: getSafePath fails for every absolute path that does not lie within the
\* trusted root, a sibling directory whose name starts with the root's name and
\* a path that leaves the root through '..' included; a success never carries a path
\* outside the root.
C20_AbsoluteOutsideRootFails ==
  (call.result # None /\ isAbsolute(call.path)) =>
     LET r == Get(call.result) IN
     /\ ~WithinRoot(normalize(call.path)) => ~r.success
     /\ r.success => WithinRoot(r.path)

\* a relative path whose normal form still has a '..' piece climbs above the root
ClimbsAboveRoot(path) ==
  /\ ~isAbsolute(path)
  /\ \E i \in 1..Len(SplitPath(normalize(path))) :
       SplitPath(normalize(path))[i] = <<".", ".">>

\* the two rejections of the relative branch
TraversalRejections ==
  {"Path contains traversal patterns", "Path resolved outside project directory"}

\* C21: getSafePath fails, with one of the rejections of its relative branch, for
\* every relative path that climbs above the root; it never returns success for
\* such a path.
C21_ClimbingPathFails ==
  (call.result # None /\ ClimbsAboveRoot(call.path)) =>
     /\ ~Get(call.result).success
     /\ Get(call.result).message \in TraversalRejections

\* C22: a path that getSafePath returns with success is absolute and starts with
\* the root, and getSafePath applied to it returns the same success again.
C22_SuccessIsIdempotent ==
  (call.result # None /\ Get(call.result).success) =>
     /\ isAbsolute(Get(call.result).path)
     /\ StartsWith(Get(call.result).path, Cwd)
     /\ call.again # None => Get(call.again) = Get(call.result)

\* C22 witness: './a' was resolved to '/a/a', and '/a/a' was resolved again
C22_Witness ==
  /\ call.path = <<".", "/", "a">>
  /\ call.result # None /\ Get(call.result).success
  /\ Get(call.result).path = <<"/", "a", "/", "a">>
  /\ call.again # None /\ Get(call.again).success

\* C30: for a relative path r, getSafePath(r) and getSafePath of the root joined
\* with r both fail, or both succeed with the same path.
C30_RelativeAndAbsoluteAgree ==
  (call.result # None /\ call.joined # None) =>
     /\ Get(call.result).success = Get(call.joined).success
     /\ Get(call.result).success => Get(call.result).path = Get(call.joined).path

\* the loop of session s is suspended at one of its awaits
Running(s) == frame[s].pc \in {"awaitChat", "awaitChunk", "awaitPermission", "awaitTool"}

\* the loop of session s ended on a complete reply without tool calls: every
\* request was answered completely, and the last message of the history is the
\* assistant message of the last reply
EndedNormally(s) ==
  /\ Count(s, "reply") = Count(s, "request")
  /\ Len(History(s)) > 0
  /\ History(s)[Len(History(s))].role = "assistant"
  /\ ~HasToolCalls(History(s)[Len(History(s))])

\* C23: abort() on the handle of session a changes neither the liveness flag nor
\* the history of another session b whose loop is running, and does not change how
\* the loop of b ends: a chat that returns with its session still active has
\* appended the assistant message of each reply and ended on a reply without tool
\* calls.
C23_SessionsIndependent ==
  [][\A b \in Sessions :
       /\ (Running(b) /\ \E a \in Sessions \ {b} : AbortSession(a)) =>
            /\ IsActive(State, b)' = IsActive(State, b)
            /\ History(b)' = History(b)
       /\ (frame'[b].pc = "resolved" /\ IsActive(State, b)') => EndedNormally(b)']_vars

\* the events of a turn that reach the caller's callbacks
TurnEvents == {"onThinking", "onMessage", "onToolCall", "onToolResult"}

\* C24: after the onAbort event of a session no onThinking, onMessage, onToolCall
\* or onToolResult event is emitted for that session, with a streamed reply and
\* with a batch reply.
C24_AbortedIsTerminal ==
  \A s \in Sessions : \A i \in Evs(s, "onAbort") :
    \A j \in (i + 1)..Len(trace[s]) : trace[s][j].ev \notin TurnEvents

\* C25: every onAbort event of a session directly follows a permission request of
\* that session that was not approved (the asker answered deny or another action,
\* or failed), and every such request is followed by one; abort() on the
\* Orchestrator, abort() on the handle and a transport failure leave the session
\* inactive and emit no onAbort event.
C25_AbortEventOnlyOnDenial ==
  [][\A s \in Sessions :
       /\ \A i \in Evs(s, "onAbort")' :
            /\ i > 1 /\ trace'[s][i - 1].ev = "permission" /\ ~trace'[s][i - 1].ok
            /\ trace'[s][i - 1].info \in {"deny", "other", "throw"}
       /\ \A k \in Evs(s, "permission")' :
            ~trace'[s][k].ok => (k < Len(trace'[s]) /\ trace'[s][k + 1].ev = "onAbort")
       /\ (Started(s) /\ (Abort \/ AbortSession(s) \/ TransportFailure(s))) =>
            /\ ~IsActive(State, s)'
            /\ Count(s, "onAbort")' = Count(s, "onAbort")]_vars

\* one chat was ended by the asker's unknown answer and its abort event, the chat
\* beside it by a transport failure without one
C25_Witness ==
  \E s \in Sessions, t \in Sessions :
    /\ s # t
    /\ \E k \in Evs(s, "permission") : trace[s][k].info = "other"
    /\ Count(s, "onAbort") = 1
    /\ frame[t].pc = "rejected" /\ Count(t, "transportFailure") = 1
    /\ Count(t, "onAbort") = 0

\* ---- every awaited call eventually completes ----
\* The call a chat is suspended on completes: the LLM reply arrives, the stream
\* yields its next chunk or ends, the asker answers, the tool returns.
Completion(s) ==
  \/ BatchReply(s)
  \/ StreamOpen(s)
  \/ StreamChunk(s)
  \/ StreamEnd(s)
  \/ AskerReply(s)
  \/ ToolDone(s)

\* ENABLED <<Completion(s)>>_vars, written out: the guards of the six actions (what
\* follows each guard installs the state a total operator computes, and moves pc or
\* counts a chunk)
Awaited(s) ==
  \/ /\ frame[s].pc = "awaitChat" /\ ~frame[s].stream
     /\ BatchReplies(s, frame[s].iterationCount, transport[s].callsLeft) # {}
  \/ frame[s].pc = "awaitChat" /\ frame[s].stream
  \/ /\ frame[s].pc = "awaitChunk"
     /\ transport[s].state = "streaming" /\ ~transport[s].doneSent
     /\ transport[s].chunks < MaxChunks
     /\ \E chunk \in StreamChunks(frame[s].iterationCount, transport[s].callsLeft) :
          /\ transport[s].chunks + 1 = MaxChunks => chunk.done
          /\ chunk.done => (IsSome(chunk.message) \/ transport[s].sentMessage)
  \/ /\ frame[s].pc = "awaitChunk"
     /\ transport[s].state = "streaming" /\ transport[s].doneSent
  \/ frame[s].pc = "awaitPermission"
  \/ frame[s].pc = "awaitTool"

\* weak fairness of Completion(s), WF_vars(Completion(s)), with its ENABLED written
\* out; failures and aborts may happen but need not
Completes(s) == []<>(~Awaited(s)) \/ []<><<Completion(s)>>_vars

\* invariant of Spec: Awaited is that enabling condition
AwaitedIsEnabled == \A s \in Sessions : Awaited(s) <=> ENABLED <<Completion(s)>>_vars

SpecCompletes == Spec /\ \A s \in Sessions : Completes(s)

\* chat() has settled: its promise resolved with the handle, or rejected
Settled(s) == frame[s].pc \in {"resolved", "rejected"}
\* the last complete reply of the LLM carried no tool call
LastReplyWithoutCalls(s) ==
  /\ Count(s, "reply") = Count(s, "request")
  /\ \E i \in Evs(s, "reply") :
       /\ \A j \in Evs(s, "reply") : j <= i
       /\ trace[s][i].info = "no_tool_calls"

\* C26: when every awaited call completes, a chat whose LLM has replied without
\* tool calls, whose permission request was denied, or whose session is inactive
\* eventually settles; the loop is stuck at none of its awaits (at each of them the
\* awaited call can complete), and, the LLM of the model asking for no tool after
\* MaxRounds requests, every chat that was started settles.
C26_ChatSettles ==
  \A s \in Sessions :
    /\ (Started(s) /\ (LastReplyWithoutCalls(s) \/ Count(s, "onAbort") > 0
                                                \/ ~IsActive(State, s))) ~> Settled(s)
    /\ [](Running(s) => Awaited(s))
    /\ Started(s) ~> Settled(s)

\* C26 witness: a chat whose first tool call was executed and whose second one was
\* denied has settled
C26_Witness ==
  \E s \in Sessions :
    /\ Settled(s) /\ ~IsActive(State, s)
    /\ Count(s, "execute") = 1 /\ Count(s, "onAbort") = 1

\* C27: once chat() has settled (resolved with the handle, or rejected), nothing
\* more happens for its session: no LLM request, permission request, tool
\* execution or event (the trace of the session stays as it is), no append to its
\* history, and its loop stays over; abort() on a handle is only ever called on a
\* session whose chat has resolved.
C27_SettledMeansLoopOver ==
  [][\A s \in Sessions :
       /\ Settled(s) =>
            /\ trace'[s] = trace[s]
            /\ History(s)' = History(s)
            /\ frame'[s] = frame[s]
            /\ transport'[s].state = "idle"
       /\ AbortSession(s) => (frame[s].pc = "resolved" /\ ~Running(s))]_vars

\* C27 witness: abort() was called on the handle of a chat that ran a tool
C27_Witness ==
  \E s \in Sessions :
    /\ frame[s].pc = "resolved"
    /\ s \in DOMAIN activeSessions /\ ~activeSessions[s]
    /\ Count(s, "onAbort") = 0 /\ Count(s, "execute") > 0
    /\ EndedNormally(s)

\* the tool results that stand directly behind position i of the history
ResultsAfter(s, i) ==
  {j \in (i + 1)..Len(History(s)) :
     \A k \in (i + 1)..j : History(s)[k].role = "tool"}

\* C28: the tool calls of a turn are processed one at a time in the order of the
\* assistant message: a tool execution starts only when the previous one of the
\* session has delivered its result, the executions of a turn go through the call
\* numbers in increasing order, and the tool messages behind an assistant message
\* are, in order, the results of its first calls, never more than it has calls.
C28_ToolCallsInOrder ==
  \A s \in Sessions :
    /\ \A i \in Evs(s, "execute"), j \in Evs(s, "execute") :
         i < j =>
           /\ \E r \in Evs(s, "onToolResult") :
                i < r /\ r < j /\ SameCall(trace[s][r], trace[s][i])
           /\ trace[s][i].round = trace[s][j].round => trace[s][i].call < trace[s][j].call
    /\ \A i \in 1..Len(History(s)) :
         History(s)[i].role = "assistant" =>
           LET calls == IF HasToolCalls(History(s)[i])
                          THEN Get(History(s)[i].tool_calls) ELSE <<>>
           IN /\ Cardinality(ResultsAfter(s, i)) <= Len(calls)
              /\ \A j \in ResultsAfter(s, i) :
                   History(s)[j].tool_name =
                     Some(extractToolCallData(calls[j - i]).toolName)

\* C28 witness: both calls of an assistant message, FileRead and then a call without
\* a name, were executed and their results stand behind it in that order
C28_Witness ==
  \E s \in Sessions : \E i \in 1..Len(History(s)) :
    /\ HasToolCalls(History(s)[i])
    /\ Get(History(s)[i].tool_calls) = <<[name |-> Some("FileRead")], [name |-> None]>>
    /\ Cardinality(ResultsAfter(s, i)) = 2
    /\ History(s)[i + 1].tool_name = Some("FileRead")
    /\ History(s)[i + 2].tool_name = Some("")

\* the session of invocation c was created empty and only c has worked on it: it
\* exists, its history holds no user message (chat(sessionId, request) appends
\* none), and every append to it was made by c
CreatedEmpty(c) ==
  /\ frame[c].sessionId \in DOMAIN sessions
  /\ \A i \in 1..Len(History(frame[c].sessionId)) :
       History(frame[c].sessionId)[i].role # "user"
  /\ \A i \in 1..Len(Appends(frame[c].sessionId)) :
       Appends(frame[c].sessionId)[i].by = c

\* C29: in the EventEmitter Orchestrator, every LLM request of a chat on a session
\* that was created empty carries the messages of the caller's request, the
\* requests after a tool turn included.
C29_PromptInEveryRequest ==
  \A c \in Invocations :
    (frame[c].pc = "awaitChat" /\ CreatedEmpty(c)) =>
      \A i \in 1..Len(RequestMessages) :
        \E j \in 1..Len(transport[c].request) :
          transport[c].request[j] = RequestMessages[i]
====
